---- MODULE Spec2Model ----
(***************************************************************************)
(* The guillotine executor: Runtime::block_on / Runtime::block             *)
(* (src/runtime/mod.rs), the epoll registry (src/runtime/epoll.rs), the    *)
(* eventfd waker (src/runtime/waker.rs, src/runtime/eventfd.rs), the       *)
(* thread-local RuntimeContext (src/runtime/context.rs) and the waking     *)
(* OS thread of examples/manual_waker.rs, the join handles of              *)
(* src/task/mod.rs and the interval timer of src/time/mod.rs.              *)
(*                                                                         *)
(* The executor thread is one process whose position is pc; every OS       *)
(* thread started by a task is a process of its own.  The kernel side of   *)
(* epoll is the interest list and the ready list: EPOLL_CTL_ADD queues an  *)
(* fd that is ready at that moment, a write to an eventfd queues it unless *)
(* it is queued already, epoll_wait with maxevents = 1 takes the head, and *)
(* closing the last reference to an fd removes it from both lists.         *)
(***************************************************************************)
EXTENDS Integers, Sequences, FiniteSets, TLC

\* ---------------------------------------------------------------- bounds
\* futures spawned in one run
MaxTasks == 2
\* OS threads started in one run
MaxThreads == 1
\* how many wake_by_ref calls a thread makes before it stores ready
PreWakes == {0, 1, 2}

\* how often a stalling future returns Pending
StallPolls == {1, 2}

\* the eventfd counter holds at most this much (0xfffffffffffffffe in the
\* kernel, scaled down): a write that would exceed it is refused
EventFdMax == 3
\* how many ticks of the interval a ticking future awaits
TickCounts == {1, 2}
\* the durations a future sleeps for, in ticks of the clock
Durations == {0, 1}

Values == {41, 42}

\* the ids of a run: MaxTasks futures, and one more for the second child
\* of a future that calls task::spawn twice
FutureIds == 0 .. MaxTasks
Fds == 0 .. MaxTasks
\* the timerfd of the one Interval of a run
TimerFd == MaxTasks + 1
\* the timerfd of the Sleep that task i awaits
SleepFd(i) == MaxTasks + 2 + i
SleepFds == {SleepFd(i) : i \in FutureIds}
None == -1

\* ---------------------------------------------------------- task programs
\* What a spawned future turns out to be when it is first polled.  kind
\* "now" completes on its first poll; kind "thread" is WakerTestFuture: its
\* first poll clones the waker into an OS thread that calls wake_by_ref pre
\* times, stores ready and calls wake; kind "stall" returns Pending left
\* times without arranging any wakeup.  Any poll of these may spawn a burst
\* of futures.  Kind "tick" awaits left ticks of the Interval, one Tick
\* future after the other; kind "join" calls task::spawn on its first poll
\* and awaits the JoinHandle; kind "block" calls task::spawn_blocking on
\* its first poll and awaits the JoinHandle; kind "sleep" awaits
\* time::sleep(pre); kind "chain" spawns its successor and completes.
\* Kind "detach" calls task::spawn on its first poll, drops the JoinHandle
\* and returns Pending left times; kind "move" calls task::spawn twice on
\* its first poll, the second time with a future that owns the JoinHandle
\* of the first, and returns Pending left times; kind "recv" is that second
\* future: it awaits the handle it owns; kind "gather" calls task::spawn
\* twice on its first poll and awaits the two JoinHandles one after the
\* other.
NowTasks == {[kind |-> "now", pre |-> 0, left |-> 0]}
ThreadTasks == {[kind |-> "thread", pre |-> p, left |-> 0] : p \in PreWakes}
StallTasks == {[kind |-> "stall", pre |-> 0, left |-> n] : n \in StallPolls}
TaskSet == NowTasks \cup ThreadTasks \cup StallTasks
\* examples/manual_waker.rs: one wake_by_ref, then the store and the wake
ManualTasks == {[kind |-> "thread", pre |-> 1, left |-> 0]}
ManualSet == NowTasks \cup StallTasks \cup ManualTasks
\* a thread that calls wake_by_ref until the eventfd counter is full
FloodTasks == {[kind |-> "thread", pre |-> EventFdMax, left |-> 0]}
TickTasks == {[kind |-> "tick", pre |-> 0, left |-> n] : n \in TickCounts}
SleepTasks == {[kind |-> "sleep", pre |-> d, left |-> 0] : d \in Durations}
JoinTasks == {[kind |-> "join", pre |-> 0, left |-> 0]}
DetachTasks == {[kind |-> "detach", pre |-> 0, left |-> n] : n \in {0, 1}}
MoveTasks == {[kind |-> "move", pre |-> 0, left |-> n] : n \in {0, 1}}
RecvTasks == {[kind |-> "recv", pre |-> 0, left |-> 0]}
GatherTasks == {[kind |-> "gather", pre |-> 0, left |-> 0]}
\* a future that calls RuntimeContext::spawn once and returns Ready; the
\* future it spawns may be of this kind again
ChainTasks == {[kind |-> "chain", pre |-> 0, left |-> 0]}
BlockTasks == {[kind |-> "block", pre |-> 0, left |-> 0]}

\* the futures a first poll may find among progs, given the ids handed out
\* and the threads started so far
Choices(progs, cur, thr) ==
    {p \in progs :
        /\ p.kind \in {"thread", "block"} => Cardinality({i \in FutureIds : thr[i].pc # "none"}) < MaxThreads
        /\ p.kind \in {"join", "detach"} => cur < MaxTasks
        /\ p.kind \in {"move", "gather"} => cur + 1 <= MaxTasks}

NoTask == [kind |-> "none", left |-> 0, st |-> "unspawned"]
NewTask == [kind |-> "none", left |-> 0, st |-> "new"]
NoThread == [pc |-> "none", pre |-> 0, waker |-> None, woke |-> FALSE]
NoContext == [future_id |-> None, waker |-> None]
NoCompleter == [waker |-> None, handle |-> None]

VARIABLES
    current,        \* FutureIdGenerator.current
    new_futures,    \* RuntimeInner.new_futures: the ids, front first
    futures,        \* Runtime.futures: parked id -> the fd of its stored waker
    interest,       \* epoll interest list: subscribed fd -> epoll_event.u64
    rdllist,        \* epoll ready list of fds, head first
    refs,           \* strong count of the Arc<GuillotineWaker> owning each eventfd
    context,        \* RUNTIME_CONTEXT
    pc,             \* position of the executor thread
    front,          \* Runtime::block: the id popped from new_futures
    waker,          \* Runtime::block: the fd of the waker of the task in hand
    future_id,      \* Runtime::block: the id returned by epoll.wait()
    result,         \* Runtime::block: the value returned by poll
    chan,           \* block_on's sync_channel(1)
    output,         \* what block_on returned
    root,           \* the id of block_on's wrapped future
    value,          \* the output of the future passed to block_on
    tasks,          \* id -> the future and how far it got
    ready,          \* WakerTestFuture.ready of each task
    thread,         \* the OS thread started by each task; woke: it has called wake or wake_by_ref
    counter,        \* the counter of each eventfd
    expired,        \* the timerfd has expirations that were not read
    tick_state,     \* Tick.state or Sleep.state of the leaf future each task awaits
    sleep_timer,    \* id -> the timerfd of the Sleep the task awaits: none, disarmed, armed or expired
    jchan,          \* id -> the sync_channel(1) of the JoinHandle the task awaits
    completer,      \* id -> the JoinHandleCompleter its wrapped future holds: the waker's fd, and the key of the handle's channel in jchan
    holder,         \* id -> the task that holds the JoinHandle of task id, for handles that are awaited in turn, moved or dropped
    joined,         \* history: id -> the tasks whose results the task got from the handles it held
    out,            \* id -> the output of a future whose result went through a JoinHandle
    programs,       \* the futures the run's tasks are drawn from
    faults,         \* the kernel may refuse an EPOLL_CTL_ADD
    spawn_log,      \* history: ids in the order of the spawn calls
    first_polls,    \* history: ids in the order of their first polls
    event_fd,       \* history: the fd whose event the last wait() consumed
    fd_owner,       \* history: fd -> the id create_waker made it for
    polled,         \* history: the id of the task polled last
    wakes_since_poll, \* history: id -> wakes of its waker since its last poll started, while it is not done: 0, 1 or more
    late_spawns,    \* history: a poll on the resume path called spawn since wait() last returned: 0 or 1
    answering,      \* history: the event wait() consumed was queued by a wake
    stale,          \* history: id -> when its last poll started, a wake made before was still queued, and none was made since
    overpolled,     \* history: a resumed poll started while the task was stale
    repolls,        \* history: id -> polls after its first, counted in runs of the manual-waker example
    sent,           \* history: id -> the value sent into the channel of the handle it awaits
    reg_calls,      \* history: id -> its calls of register_file_descriptor, up to 2
    first_reg,      \* history: the id under which the timerfd was first subscribed
    last_add,       \* history: what the last EPOLL_CTL_ADD returned
    borrow          \* RuntimeInner's RefCell is mutably borrowed

exec_vars == <<current, new_futures, futures, context, pc, front, waker, future_id, result, chan, output, root, value, tasks>>
epoll_vars == <<interest, rdllist, refs>>
thread_vars == <<ready, thread>>
hist_vars == <<spawn_log, first_polls, event_fd, fd_owner, polled, wakes_since_poll, late_spawns, answering, stale, overpolled>>
env_vars == <<programs, faults>>
timer_vars == <<expired, tick_state, sleep_timer, reg_calls, first_reg>>
join_vars == <<jchan, completer, holder, joined, out, sent>>
leaf_vars == <<env_vars, timer_vars, join_vars>>
vars == <<exec_vars, epoll_vars, thread_vars, hist_vars, env_vars, timer_vars, join_vars, counter, repolls, last_add, borrow>>

\* ------------------------------------------------------------------ epoll
Contains(s, e) == \E i \in 1 .. Len(s) : s[i] = e

Without(s, e) == SelectSeq(s, LAMBDA x : x # e)

\* eventfd(0, EFD_NONBLOCK): the kernel hands out the lowest free number
NewFd(r) == CHOOSE fd \in Fds : r[fd] = 0 /\ \A g \in Fds : r[g] = 0 => fd <= g

\* Epoll::add: EPOLL_CTL_ADD with EPOLLIN | EPOLLOUT | EPOLLET and u64 = id.
\* A fresh eventfd is writable, so it is queued at once.
EpollAddInterest(int, fd, id) == [f \in (DOMAIN int) \cup {fd} |-> IF f = fd THEN id ELSE int[f]]

EpollAddReady(rdl, fd) == IF Contains(rdl, fd) THEN rdl ELSE Append(rdl, fd)

\* mutant: the write never reaches the ready list
EpollCallback_lost(int, rdl, fd) == rdl

\* mutant: the write queues the item once more although it is linked
EpollCallback_dup(int, rdl, fd) == IF fd \in DOMAIN int THEN Append(rdl, fd) ELSE rdl

\* EventFd::write seen from epoll: the item is queued unless already linked
EpollCallback(int, rdl, fd) == IF fd \in DOMAIN int /\ ~Contains(rdl, fd) THEN Append(rdl, fd) ELSE rdl

\* Epoll::wait: one event, the head of the ready list; edge-triggered, so
\* the item is not queued again
EpollWaitEvent(rdl) == Head(rdl)

\* mutant: wait takes every queued event and reports only the first
EpollWaitRest_all(rdl) == <<>>

EpollWaitRest(rdl) == Tail(rdl)

EpollWaitId(int, rdl) == int[EpollWaitEvent(rdl)]

\* mutant: the drop of a Waker does not release its owner
DropRefs_kept(r, fd) == r

\* Drop of a Waker: the Arc loses one owner; the last owner drops the
\* EventFd, whose close removes the fd from the epoll instance
DropRefs(r, fd) == [r EXCEPT ![fd] = @ - 1]

\* mutant: close leaves the fd in the interest list
DropInterest_kept(int, r, fd) == int

DropInterest(int, r, fd) == IF r[fd] = 1 THEN [f \in (DOMAIN int) \ {fd} |-> int[f]] ELSE int

DropReady(rdl, r, fd) == IF r[fd] = 1 THEN Without(rdl, fd) ELSE rdl

\* close of the EventFd: the number is free again, a later eventfd starts at 0
DropCounter(c, r, fd) == IF r[fd] = 1 THEN [c EXCEPT ![fd] = 0] ELSE c

\* EventFd::write: the kernel refuses with EAGAIN an addition that would
\* take the counter over its maximum
write(cnt, val) == IF cnt + val > EventFdMax THEN "WouldBlock" ELSE "Ok"

\* GuillotineWaker::wake: .expect() on the result of the write
wake(res) == IF res = "Ok" THEN "Ok" ELSE "panic"

\* what EPOLL_CTL_ADD returns: EEXIST for a subscribed fd, else what the
\* kernel makes of it
Errnos(flt) == IF flt THEN {"Ok", "ENOMEM"} ELSE {"Ok"}

epoll_ctl(int, fd, err) == IF fd \in DOMAIN int THEN "EEXIST" ELSE err

\* mutant: EPOLL_CTL_ADD on a subscribed fd replaces the subscription
epoll_add_mod(int, fd, id, r) == IF r \in {"Ok", "EEXIST"} THEN EpollAddInterest(int, fd, id) ELSE int

\* Epoll::add: the interest list after EPOLL_CTL_ADD returned r
epoll_add(int, fd, id, r) == IF r = "Ok" THEN EpollAddInterest(int, fd, id) ELSE int

\* mutant: AlreadyExists is not matched
register_file_descriptor_strict(r) == IF r = "Ok" THEN "Ok" ELSE "panic"

\* mutant: every error is ignored
register_file_descriptor_lenient(r) == "Ok"

\* RuntimeContext::register_file_descriptor: AlreadyExists is ignored,
\* every other error goes to .expect()
register_file_descriptor(r) == IF r \in {"Ok", "EEXIST"} THEN "Ok" ELSE "panic"

\* Runtime::create_waker: .expect() on the result of Epoll::add
create_waker(r) == IF r = "Ok" THEN "Ok" ELSE "panic"

\* ------------------------------------------------------------ RuntimeInner
\* RefCell::try_borrow_mut().expect(..) on Runtime.inner: a second mutable
\* borrow panics
try_borrow_mut(b) == IF b THEN "panic" ELSE "Ok"

\* mutant: the RefMut lives on after the block that took it
release_held(b) == b

\* the RefMut is dropped at the end of the block that took it
release(b) == FALSE

\* mutant: the generator does not advance
fresh_same(cur) == [id |-> cur, current |-> cur]

\* mutant: the generator hands out the first id again
fresh_zero(cur) == [id |-> 0, current |-> cur + 1]

\* mutant: the generator skips an id
fresh_skip(cur) == [id |-> cur, current |-> cur + 2]

\* FutureIdGenerator::fresh
fresh(cur) == [id |-> cur, current |-> cur + 1]

\* mutant: push_front
PushBack_front(q, e) == <<e>> \o q

PushBack(q, e) == Append(q, e)

\* RuntimeInner::spawn on (current, new_futures)
spawn(inner) ==
    LET f == fresh(inner.current)
    IN [current |-> f.current, new_futures |-> PushBack(inner.new_futures, f.id), log |-> Append(inner.log, f.id)]

\* RuntimeInner::spawn called by a chain future.  The successor is given
\* the id of the future that spawns it, which is reaped in the same
\* iteration of the loop, and the generator is left alone: the ids of a run
\* that spawns without end stay within FutureIds.
respawn(inner, id) ==
    [current |-> inner.current, new_futures |-> PushBack(inner.new_futures, id), log |-> inner.log]

RECURSIVE spawn_n(_, _)
spawn_n(inner, n) == IF n = 0 THEN inner ELSE spawn_n(spawn(inner), n - 1)

\* -------------------------------------------------------------------- Init
\* the state after Runtime::new, for a run whose futures are drawn from
\* progs
InitWith(progs, flts) ==
    /\ programs = progs
    /\ faults \in flts
    /\ counter = [fd \in Fds |-> 0]
    /\ expired = FALSE
    /\ tick_state = [i \in FutureIds |-> "Unregistered"]
    /\ sleep_timer = [i \in FutureIds |-> "none"]
    /\ holder = [i \in FutureIds |-> None]
    /\ joined = [i \in FutureIds |-> {}]
    /\ jchan = [i \in FutureIds |-> <<>>]
    /\ completer = [i \in FutureIds |-> NoCompleter]
    /\ out = [i \in FutureIds |-> None]
    /\ repolls = [i \in FutureIds |-> 0]
    /\ sent = [i \in FutureIds |-> None]
    /\ reg_calls = [i \in FutureIds |-> 0]
    /\ first_reg = None
    /\ last_add = "none"
    /\ borrow = FALSE
    /\ current = 0
    /\ new_futures = <<>>
    /\ futures = [i \in {} |-> None]
    /\ interest = [f \in {} |-> None]
    /\ rdllist = <<>>
    /\ refs = [fd \in Fds |-> 0]
    /\ context = NoContext
    /\ pc = "start"
    /\ front = None
    /\ waker = None
    /\ future_id = None
    /\ result = "none"
    /\ chan = <<>>
    /\ output = None
    /\ root = None
    /\ value = None
    /\ tasks = [i \in FutureIds |-> NoTask]
    /\ ready = [i \in FutureIds |-> FALSE]
    /\ thread = [i \in FutureIds |-> NoThread]
    /\ spawn_log = <<>>
    /\ first_polls = <<>>
    /\ event_fd = None
    /\ fd_owner = [fd \in Fds |-> None]
    /\ polled = None
    /\ wakes_since_poll = [i \in FutureIds |-> 0]
    /\ late_spawns = 0
    /\ answering = FALSE
    /\ stale = [i \in FutureIds |-> FALSE]
    /\ overpolled = FALSE

Init == InitWith(TaskSet, {FALSE})

\* ------------------------------------------------------- before the loop
\* Runtime::spawn, called before block_on
RuntimeSpawn ==
    /\ pc = "start"
    /\ current + 1 < MaxTasks
    /\ LET inner == spawn([current |-> current, new_futures |-> new_futures, log |-> spawn_log])
       IN /\ current' = inner.current
          /\ new_futures' = inner.new_futures
          /\ spawn_log' = inner.log
          /\ tasks' = [tasks EXCEPT ![current] = NewTask]
    /\ UNCHANGED <<futures, context, pc, front, waker, future_id, result, chan, output, root, value>>
    /\ UNCHANGED <<epoll_vars, thread_vars>>
    /\ UNCHANGED <<first_polls, event_fd, fd_owner, polled, wakes_since_poll, late_spawns, answering, stale, overpolled>>
    /\ UNCHANGED <<leaf_vars, borrow, counter, repolls, last_add>>

\* Runtime::block_on up to the call of block: the wrapped future is spawned
BlockOn ==
    /\ pc = "start"
    /\ LET inner == spawn([current |-> current, new_futures |-> new_futures, log |-> spawn_log])
       IN /\ current' = inner.current
          /\ new_futures' = inner.new_futures
          /\ spawn_log' = inner.log
          /\ tasks' = [tasks EXCEPT ![current] = NewTask]
          /\ root' = current
    /\ pc' = "loop"
    /\ UNCHANGED <<futures, context, front, waker, future_id, result, chan, output, value>>
    /\ UNCHANGED <<epoll_vars, thread_vars>>
    /\ UNCHANGED <<first_polls, event_fd, fd_owner, polled, wakes_since_poll, late_spawns, answering, stale, overpolled>>
    /\ UNCHANGED <<leaf_vars, borrow, counter, repolls, last_add>>

\* ------------------------------------------------------------- Future::poll
\* mutant: the thread future does not look at ready
poll_result_unchecked(t, flag) ==
    CASE t.kind = "now" -> "Ready"
      [] t.kind = "thread" -> "Ready"
      [] t.kind \in {"stall", "detach", "move"} -> IF t.left = 0 THEN "Ready" ELSE "Pending"

\* what the future t returns when polled
poll_result(t, flag) ==
    CASE t.kind = "now" -> "Ready"
      [] t.kind = "thread" -> IF flag THEN "Ready" ELSE "Pending"
      [] t.kind \in {"stall", "detach", "move"} -> IF t.left = 0 THEN "Ready" ELSE "Pending"

\* the future after a poll that returned res
polled_task(t, res) ==
    [kind |-> t.kind,
     left |-> IF t.left > 0 THEN t.left - 1 ELSE 0,
     st |-> IF res = "Ready" THEN "done" ELSE "pending"]

\* mutant: every completing task sends into block_on's channel
sends_any(id, rt, res) == res = "Ready"

\* block_on's wrapped future sends when the future it wraps is ready
sends(id, rt, res) == res = "Ready" /\ id = rt

\* mutant: the handle resolves without looking into the channel
JoinHandle_poll_eager(ch) == "Ready"

\* JoinHandle::poll: try_recv on the channel
JoinHandle_poll(ch) == IF ch = <<>> THEN "Pending" ELSE "Ready"

\* mutant: the task returns Pending after every handle but its last
await_handles_one(p, jc, hold) ==
    LET hs == {b \in FutureIds : hold[b] = p}
    IN IF hs = {}
       THEN [res |-> "Ready", jchan |-> jc, holder |-> hold]
       ELSE LET b == CHOOSE x \in hs : \A y \in hs : x <= y
            IN IF jc[b] = <<>>
               THEN [res |-> "Pending", jchan |-> jc, holder |-> hold]
               ELSE [res |-> IF hs = {b} THEN "Ready" ELSE "Pending",
                     jchan |-> [jc EXCEPT ![b] = Tail(@)],
                     holder |-> [hold EXCEPT ![b] = None]]

\* JoinHandle::poll of the handles task p holds, one after the other as the
\* task awaits them, lowest id first: the task goes on to the next handle
\* in the same poll when try_recv returned the value
RECURSIVE await_handles(_, _, _)
await_handles(p, jc, hold) ==
    LET hs == {b \in FutureIds : hold[b] = p}
    IN IF hs = {}
       THEN [res |-> "Ready", jchan |-> jc, holder |-> hold]
       ELSE LET b == CHOOSE x \in hs : \A y \in hs : x <= y
            IN IF JoinHandle_poll(jc[b]) = "Pending"
               THEN [res |-> "Pending", jchan |-> jc, holder |-> hold]
               ELSE await_handles(p, [jc EXCEPT ![b] = Tail(@)], [hold EXCEPT ![b] = None])

\* mutant: the send succeeds without a receiver
try_send_ok(connected) == "Ok"

\* SyncSender::send: Err when the Receiver, that is the JoinHandle, has
\* been dropped
try_send(connected) == IF connected THEN "Ok" ELSE "Err"

\* mutant: the value is sent twice
complete_send_twice(ch, v) == Append(Append(ch, v), v)

\* JoinHandleCompleter::complete: tx.send(t)
complete_send(ch, v) == Append(ch, v)

\* mutant: the worker wakes before it sends
complete_wake_first == <<"wake", "send">>

\* JoinHandleCompleter::complete: the send, then the wake
complete == <<"send", "wake">>

\* mutant: every poll that finds the timerfd unexpired registers it
Tick_reregisters(left, st, exp) ==
    IF exp
    THEN IF left = 1
         THEN [res |-> "Ready", left |-> 0, st |-> "Unregistered", registers |-> FALSE]
         ELSE [res |-> "Pending", left |-> left - 1, st |-> "Registered", registers |-> TRUE]
    ELSE [res |-> "Pending", left |-> left, st |-> "Registered", registers |-> TRUE]

\* Tick::poll, as often as the task goes on to its next tick in one poll:
\* read() of the timerfd; on WouldBlock the fd is registered unless this
\* Tick has done so.  left ticks are still awaited, st is Tick.state, exp
\* says whether the timerfd has expired.
Tick(left, st, exp) ==
    IF exp
    THEN IF left = 1
         THEN [res |-> "Ready", left |-> 0, st |-> "Unregistered", registers |-> FALSE]
         ELSE [res |-> "Pending", left |-> left - 1, st |-> "Registered", registers |-> TRUE]
    ELSE [res |-> "Pending", left |-> left, st |-> "Registered", registers |-> st = "Unregistered"]

\* TimerFd::new(Duration::ZERO, value): timerfd_settime with it_interval
\* zero and it_value = value.  A zero it_value disarms the timer instead of
\* making it expire at once.
timerfd_settime(val) == IF val = 0 THEN "disarmed" ELSE "armed"

\* Sleep::poll: read() of the timerfd; on WouldBlock the fd is registered
\* unless this Sleep has done so.  timer is the state of the timerfd, st is
\* Sleep.state.
Sleep_poll(timer, st) ==
    IF timer = "expired"
    THEN [res |-> "Ready", st |-> st, registers |-> FALSE]
    ELSE [res |-> "Pending", st |-> "Registered", registers |-> st = "Unregistered"]

\* mutant: the context is made for the id popped first
set_first(id, fd) == [future_id |-> 0, waker |-> fd]

\* RuntimeContext::set(RuntimeContext::new(future_id, waker.clone(), inner))
set(id, fd) == [future_id |-> id, waker |-> fd]

\* RuntimeContext::set, then one poll of task id whose waker is fd.  The
\* future spawns through RuntimeContext::spawn, starts its thread with a
\* clone of the waker on the first poll, and the wrapped future of block_on
\* sends the output into the channel when it completes.  The wrapped future
\* of task::spawn completes its JoinHandle.  pc becomes next_pc unless the
\* poll panicked.
PollFuture(id, fd, next_pc) ==
    \E rec \in IF tasks[id].st = "new" THEN Choices(programs, current, thread) ELSE {[kind |-> tasks[id].kind, pre |-> 0, left |-> tasks[id].left]} :
    \E n \in {0} \cup (1 .. (MaxTasks - current)) :
    \E v \in Values :
    \E err \in Errnos(faults) :
        LET t == rec
            first == tasks[id].st = "new"
            bursts == t.kind \in {"now", "thread", "stall"}
            awaits == t.kind \in {"join", "block"}
            gathers == t.kind \in {"recv", "gather"}
            single == t.kind \in {"join", "detach"} /\ first
            twice == t.kind \in {"move", "gather"} /\ first
            kids == IF single THEN 1 ELSE IF twice THEN 2 ELSE IF bursts THEN n ELSE 0
            hold == IF t.kind = "gather" /\ first THEN [holder EXCEPT ![current] = id, ![current + 1] = id]
                    ELSE IF t.kind = "move" /\ first THEN [holder EXCEPT ![current] = current + 1]
                    ELSE holder
            hs == await_handles(id, jchan, hold)
            tk == Tick(t.left, tick_state[id], expired)
            sleeps == t.kind = "sleep"
            chains == t.kind = "chain"
            timer == IF first THEN timerfd_settime(t.pre) ELSE sleep_timer[id]
            sl == Sleep_poll(timer, tick_state[id])
            registers == (t.kind = "tick" /\ tk.registers) \/ (sleeps /\ sl.registers)
            tfd == IF sleeps THEN SleepFd(id) ELSE TimerFd
            r == epoll_ctl(interest, tfd, err)
            res == CASE bursts -> poll_result(t, ready[id])
                     [] t.kind = "tick" -> tk.res
                     [] sleeps -> sl.res
                     [] chains -> "Ready"
                     [] awaits -> JoinHandle_poll(jchan[id])
                     [] t.kind \in {"detach", "move"} -> poll_result(t, FALSE)
                     [] gathers -> hs.res
            val == IF awaits THEN (IF jchan[id] # <<>> THEN Head(jchan[id]) ELSE None) ELSE v
            starts == t.kind \in {"thread", "block"} /\ first
            burst == spawn_n([current |-> current, new_futures |-> new_futures, log |-> spawn_log], kids)
            inner == IF chains THEN respawn(burst, id) ELSE burst
            comp == completer[id]
            completes == res = "Ready" /\ comp # NoCompleter
            connected == IF comp.handle = id THEN holder[id] # None ELSE tasks[comp.handle].st # "done"
            delivered == completes /\ try_send(connected) = "Ok"
            w == IF delivered THEN write(counter[comp.waker], 1) ELSE "Ok"
            woken == delivered /\ w = "Ok"
            jc == IF awaits /\ res = "Ready" /\ jchan[id] # <<>> THEN [jchan EXCEPT ![id] = Tail(@)]
                  ELSE IF gathers THEN hs.jchan
                  ELSE jchan
            closes == sleeps /\ res = "Ready"
            rl == IF closes THEN Without(rdllist, tfd) ELSE rdllist
            made == IF t.kind = "join" /\ first THEN [completer EXCEPT ![current] = [waker |-> fd, handle |-> id]]
                    ELSE IF t.kind \in {"detach", "move"} /\ first THEN [completer EXCEPT ![current] = [waker |-> fd, handle |-> current]]
                    ELSE IF t.kind = "gather" /\ first
                    THEN [completer EXCEPT ![current] = [waker |-> fd, handle |-> current],
                                           ![current + 1] = [waker |-> fd, handle |-> current + 1]]
                    ELSE completer
            rf == [refs EXCEPT ![fd] = @ + 1 + (IF starts THEN 1 ELSE 0) + Cardinality({b \in FutureIds : made[b] # completer[b]})]
            cb == IF woken THEN EpollCallback(interest, rl, comp.waker) ELSE rl
            cn == IF woken THEN [counter EXCEPT ![comp.waker] = @ + 1] ELSE counter
            reg == IF registers THEN epoll_add(interest, tfd, id, r)
                   ELSE IF closes THEN [f \in (DOMAIN interest) \ {tfd} |-> interest[f]]
                   ELSE interest
        IN /\ bursts \/ n = 0
           /\ first => (t.kind = "recv" <=> \E b \in FutureIds : holder[b] = id)
           /\ chains => id # root
           /\ registers \/ err = "Ok"
           /\ current' = inner.current
           /\ new_futures' = inner.new_futures
           /\ spawn_log' = inner.log
           /\ tasks' = [i \in FutureIds |->
                          IF i = id /\ chains THEN NewTask
                          ELSE IF i = id THEN [polled_task(t, res) EXCEPT !.left = IF t.kind = "tick" THEN tk.left ELSE @]
                          ELSE IF i >= current /\ i < inner.current THEN NewTask
                          ELSE tasks[i]]
           /\ context' = set(id, fd)
           /\ refs' = IF completes THEN DropRefs(rf, comp.waker) ELSE rf
           /\ thread' = IF starts
                        THEN [thread EXCEPT ![id] = [pc |-> IF t.kind = "thread" THEN "run" ELSE "c1", pre |-> t.pre, waker |-> fd, woke |-> FALSE]]
                        ELSE thread
           /\ IF sends(id, root, res)
              THEN chan' = Append(chan, val) /\ value' = val
              ELSE UNCHANGED <<chan, value>>
           /\ completer' = IF completes THEN [made EXCEPT ![id] = NoCompleter] ELSE made
           /\ holder' = IF gathers THEN hs.holder ELSE hold
           /\ joined' = [joined EXCEPT ![id] = @ \cup {b \in FutureIds : hold[b] = id /\ hs.holder[b] = None}]
           /\ jchan' = IF delivered THEN [jc EXCEPT ![comp.handle] = complete_send(@, val)] ELSE jc
           /\ sent' = IF delivered THEN [sent EXCEPT ![comp.handle] = val] ELSE sent
           /\ out' = IF res = "Ready" /\ (awaits \/ completes) THEN [out EXCEPT ![id] = val] ELSE out
           /\ rdllist' = IF completes THEN DropReady(cb, rf, comp.waker) ELSE cb
           /\ counter' = IF completes THEN DropCounter(cn, rf, comp.waker) ELSE cn
           /\ interest' = IF completes THEN DropInterest(reg, rf, comp.waker) ELSE reg
           /\ expired' = IF t.kind = "tick" THEN FALSE ELSE expired
           /\ tick_state' = IF t.kind = "tick" THEN [tick_state EXCEPT ![id] = tk.st]
                            ELSE IF sleeps THEN [tick_state EXCEPT ![id] = sl.st]
                            ELSE tick_state
           /\ sleep_timer' = IF sleeps THEN [sleep_timer EXCEPT ![id] = IF closes THEN "none" ELSE timer] ELSE sleep_timer
           /\ reg_calls' = IF registers THEN [reg_calls EXCEPT ![id] = IF @ < 2 THEN @ + 1 ELSE @] ELSE reg_calls
           /\ first_reg' = IF t.kind = "tick" /\ registers /\ r = "Ok" /\ first_reg = None THEN id ELSE first_reg
           /\ last_add' = IF registers THEN r ELSE "none"
           /\ result' = res
           /\ polled' = id
           /\ wakes_since_poll' = [wakes_since_poll EXCEPT ![id] = 0]
           /\ late_spawns' = IF tasks[id].st # "new" /\ kids > 0 THEN 1 ELSE late_spawns
           /\ pc' = IF (kids > 0 \/ chains \/ registers) /\ try_borrow_mut(borrow) = "panic" THEN "panic_borrow"
                    ELSE IF registers /\ register_file_descriptor(r) = "panic" THEN "panic_add"
                    ELSE IF delivered /\ wake(w) = "panic" THEN "panic_wake"
                    ELSE next_pc
           /\ UNCHANGED <<ready, env_vars, borrow>>

\* ------------------------------------------------------------ Runtime::block
\* mutant: the parked map is not looked at
branch_fifo_only(f, parked_empty) ==
    IF f = None THEN "break" ELSE "new"

\* mutant: the popped future is not looked at
branch_parked_only(f, parked_empty) ==
    IF parked_empty THEN "break"
    ELSE IF f # None THEN "new" ELSE "wait"

\* mutant: wait comes before the new futures
branch_wait_first(f, parked_empty) ==
    IF f = None /\ parked_empty THEN "break"
    ELSE IF ~parked_empty THEN "wait" ELSE "new"

\* what the loop does after pop_front
branch(f, parked_empty) ==
    IF f = None /\ parked_empty THEN "break"
    ELSE IF f # None THEN "new" ELSE "wait"

\* pop_front and the termination check
LoopTop ==
    /\ pc = "loop"
    /\ IF try_borrow_mut(borrow) = "panic"
       THEN /\ pc' = "panic_borrow"
            /\ UNCHANGED <<front, new_futures, borrow>>
       ELSE /\ front' = IF new_futures = <<>> THEN None ELSE Head(new_futures)
            /\ new_futures' = IF new_futures = <<>> THEN <<>> ELSE Tail(new_futures)
            /\ borrow' = release(TRUE)
            /\ pc' = branch(front', DOMAIN futures = {})
    /\ UNCHANGED <<current, futures, context, waker, future_id, result, chan, output, root, value, tasks>>
    /\ UNCHANGED <<epoll_vars, thread_vars, hist_vars>>
    /\ UNCHANGED <<leaf_vars, counter, repolls, last_add>>

\* mutant: every eventfd is subscribed under the first id
waker_id_zero(id) == 0

\* the id create_waker subscribes the eventfd under
waker_id(id) == id

\* Runtime::create_waker: EventFd::new, Epoll::add, waker::build
CreateWaker ==
    /\ pc = "new"
    /\ \E err \in Errnos(faults) :
        LET fd == NewFd(refs)
            r == epoll_ctl(interest, fd, err)
        IN /\ refs' = [refs EXCEPT ![fd] = 1]
           /\ counter' = [counter EXCEPT ![fd] = 0]
           /\ interest' = epoll_add(interest, fd, waker_id(front), r)
           /\ rdllist' = IF r = "Ok" THEN EpollAddReady(rdllist, fd) ELSE rdllist
           /\ waker' = fd
           /\ fd_owner' = [fd_owner EXCEPT ![fd] = front]
           /\ last_add' = r
           /\ borrow' = IF try_borrow_mut(borrow) = "panic" THEN borrow ELSE release(TRUE)
           /\ pc' = IF try_borrow_mut(borrow) = "panic" THEN "panic_borrow"
                    ELSE IF create_waker(r) = "panic" THEN "panic_add" ELSE "poll_new"
    /\ UNCHANGED <<current, new_futures, futures, context, front, future_id, result, chan, output, root, value, tasks>>
    /\ UNCHANGED <<thread_vars, spawn_log, first_polls, event_fd, polled, wakes_since_poll, late_spawns, answering, stale, overpolled>>
    /\ UNCHANGED <<leaf_vars, repolls>>

\* the first poll of the task popped from new_futures
PollNew ==
    /\ pc = "poll_new"
    /\ PollFuture(front, waker, "polled_new")
    /\ first_polls' = IF Contains(first_polls, front) THEN first_polls ELSE Append(first_polls, front)
    /\ UNCHANGED <<futures, front, waker, future_id, output, root>>
    /\ UNCHANGED <<event_fd, fd_owner, answering, stale, overpolled, repolls>>

\* mutant: the thread-local keeps the context of the last poll
clear_kept(ctx) == ctx

\* RuntimeContext::clear
clear(ctx) == NoContext

\* HashMap::insert on Runtime.futures: the waker is stored with the task
insert(futs, id, fd) == [i \in (DOMAIN futs) \cup {id} |-> IF i = id THEN fd ELSE futs[i]]

\* mutant: remove leaves the entry
remove_none(futs, id) == futs

\* HashMap::remove on Runtime.futures
remove(futs, id) == [i \in (DOMAIN futs) \ {id} |-> futs[i]]

\* mutant: the task is parked whatever its first poll returned
parks_always(res) == TRUE

\* the match on the result of the first poll: Poll::Pending parks the task
parks(res) == res = "Pending"

\* RuntimeContext::clear and the match on the result of the first poll
FinishNew ==
    /\ pc = "polled_new"
    /\ context' = clear(context)
    /\ LET r1 == DropRefs(refs, waker)
       IN IF parks(result)
          THEN /\ refs' = r1
               /\ futures' = insert(futures, front, waker)
               /\ UNCHANGED <<interest, rdllist, counter>>
          ELSE /\ refs' = DropRefs(r1, waker)
               /\ interest' = DropInterest(interest, r1, waker)
               /\ rdllist' = DropReady(rdllist, r1, waker)
               /\ counter' = DropCounter(counter, r1, waker)
               /\ UNCHANGED futures
    /\ front' = None
    /\ waker' = None
    /\ result' = "none"
    /\ polled' = None
    /\ pc' = "loop"
    /\ UNCHANGED <<current, new_futures, future_id, chan, output, root, value, tasks>>
    /\ UNCHANGED <<thread_vars, spawn_log, first_polls, event_fd, fd_owner, wakes_since_poll, late_spawns, answering, stale, overpolled>>
    /\ UNCHANGED <<leaf_vars, borrow, repolls, last_add>>

\* epoll.wait(): blocks while the ready list is empty
Wait ==
    /\ pc = "wait"
    /\ rdllist # <<>>
    /\ future_id' = EpollWaitId(interest, rdllist)
    /\ event_fd' = EpollWaitEvent(rdllist)
    /\ rdllist' = EpollWaitRest(rdllist)
    /\ answering' = (wakes_since_poll[future_id'] > 0)
    /\ late_spawns' = 0
    /\ borrow' = IF try_borrow_mut(borrow) = "panic" THEN borrow ELSE release(TRUE)
    /\ pc' = IF try_borrow_mut(borrow) = "panic" THEN "panic_borrow" ELSE "existing"
    /\ UNCHANGED <<current, new_futures, futures, context, front, waker, result, chan, output, root, value, tasks>>
    /\ UNCHANGED <<interest, refs, thread_vars, spawn_log, first_polls, fd_owner, polled, wakes_since_poll, stale, overpolled>>
    /\ UNCHANGED <<leaf_vars, counter, repolls, last_add>>

\* mutant: an id that is not parked gets the entry of the first parked task
get_mut_first(futs, id) ==
    IF id \in DOMAIN futs THEN futs[id]
    ELSE IF DOMAIN futs # {} THEN futs[CHOOSE i \in DOMAIN futs : \A j \in DOMAIN futs : i <= j]
    ELSE None

\* HashMap::get_mut on Runtime.futures: the waker stored with the task, if any
get_mut(futs, id) == IF id \in DOMAIN futs THEN futs[id] ELSE None

\* futures.get_mut found the task: poll it again
PollExisting ==
    /\ pc = "existing"
    /\ get_mut(futures, future_id) # None
    /\ PollFuture(future_id, get_mut(futures, future_id), "polled_existing")
    /\ overpolled' = (overpolled \/ stale[future_id])
    /\ stale' = [stale EXCEPT ![future_id] = result' = "Pending" /\ answering /\ Contains(rdllist, get_mut(futures, future_id))]
    /\ answering' = FALSE
    /\ repolls' = [repolls EXCEPT ![future_id] = IF programs = ManualSet THEN @ + 1 ELSE @]
    /\ UNCHANGED <<futures, front, waker, future_id, output, root>>
    /\ UNCHANGED <<first_polls, event_fd, fd_owner>>

\* futures.get_mut found nothing: warn and go on
WarnUnexpected ==
    /\ pc = "existing"
    /\ get_mut(futures, future_id) = None
    /\ future_id' = None
    /\ event_fd' = None
    /\ answering' = FALSE
    /\ pc' = "loop"
    /\ UNCHANGED <<current, new_futures, futures, context, front, waker, result, chan, output, root, value, tasks>>
    /\ UNCHANGED <<epoll_vars, thread_vars>>
    /\ UNCHANGED <<spawn_log, first_polls, fd_owner, polled, wakes_since_poll, late_spawns, stale, overpolled>>
    /\ UNCHANGED <<leaf_vars, borrow, counter, repolls, last_add>>

\* mutant: a parked task is never removed
should_remove_never(res) == FALSE

\* the match on the result of a later poll: Poll::Ready sets should_remove
should_remove(res) == res = "Ready"

\* RuntimeContext::clear, the match on the result and futures.remove
FinishExisting ==
    /\ pc = "polled_existing"
    /\ context' = clear(context)
    /\ LET fd == futures[future_id]
           r1 == DropRefs(refs, fd)
       IN IF should_remove(result)
          THEN /\ refs' = DropRefs(r1, fd)
               /\ interest' = DropInterest(interest, r1, fd)
               /\ rdllist' = DropReady(rdllist, r1, fd)
               /\ counter' = DropCounter(counter, r1, fd)
               /\ futures' = remove(futures, future_id)
          ELSE /\ refs' = r1
               /\ UNCHANGED <<futures, interest, rdllist, counter>>
    /\ future_id' = None
    /\ result' = "none"
    /\ event_fd' = None
    /\ polled' = None
    /\ pc' = "loop"
    /\ UNCHANGED <<current, new_futures, front, waker, chan, output, root, value, tasks>>
    /\ UNCHANGED <<thread_vars, spawn_log, first_polls, fd_owner, wakes_since_poll, late_spawns, answering, stale, overpolled>>
    /\ UNCHANGED <<leaf_vars, borrow, repolls, last_add>>

\* block_on after block returned: rx.recv().expect("Expected to recv")
Recv ==
    /\ pc = "break"
    /\ IF chan # <<>>
       THEN /\ output' = Head(chan)
            /\ chan' = Tail(chan)
            /\ pc' = "returned"
       ELSE /\ pc' = "panicked"
            /\ UNCHANGED <<output, chan>>
    /\ UNCHANGED <<current, new_futures, futures, context, front, waker, future_id, result, root, value, tasks>>
    /\ UNCHANGED <<epoll_vars, thread_vars, hist_vars>>
    /\ UNCHANGED <<leaf_vars, borrow, counter, repolls, last_add>>

\* ------------------------------------------------- WakerTestFuture::spawn
Done(i) == tasks[i].st = "done"

\* GuillotineWaker::wake on the waker the thread of task i holds; when the
\* write is refused the thread panics and its waker is dropped as it unwinds
Woken(i, by_ref_call, after) ==
    LET fd == thread[i].waker
        w == write(counter[fd], 1)
        ok == wake(w) = "Ok"
        rdl == IF ok THEN EpollCallback(interest, rdllist, fd) ELSE rdllist
        cnt == IF ok THEN [counter EXCEPT ![fd] = @ + 1] ELSE counter
        keeps == by_ref_call /\ ok
    IN /\ rdllist' = IF keeps THEN rdl ELSE DropReady(rdl, refs, fd)
       /\ interest' = IF keeps THEN interest ELSE DropInterest(interest, refs, fd)
       /\ counter' = IF keeps THEN cnt ELSE DropCounter(cnt, refs, fd)
       /\ refs' = IF keeps THEN refs ELSE DropRefs(refs, fd)
       /\ wakes_since_poll' = [wakes_since_poll EXCEPT ![i] = IF Done(i) \/ ~ok THEN @ ELSE IF @ < 2 THEN @ + 1 ELSE @]
       /\ stale' = [stale EXCEPT ![i] = @ /\ ~ok]
       /\ thread' = [thread EXCEPT ![i] =
                        IF ~ok THEN [pc |-> "panic_wake", pre |-> 0, waker |-> None, woke |-> @.woke]
                        ELSE after]

\* waker.wake_by_ref() with ready still false
ThreadWakeByRef(i) ==
    /\ thread[i].pc = "run"
    /\ thread[i].pre > 0
    /\ Woken(i, TRUE, [thread[i] EXCEPT !.pre = @ - 1, !.woke = TRUE])
    /\ UNCHANGED <<exec_vars, ready>>
    /\ UNCHANGED <<spawn_log, first_polls, event_fd, fd_owner, polled, late_spawns, answering, overpolled>>
    /\ UNCHANGED <<leaf_vars, borrow, repolls, last_add>>

\* ready.store(true)
ThreadStore(i) ==
    /\ thread[i].pc = "run"
    /\ thread[i].pre = 0
    /\ ready' = [ready EXCEPT ![i] = TRUE]
    /\ thread' = [thread EXCEPT ![i].pc = "wake"]
    /\ UNCHANGED <<exec_vars, epoll_vars, hist_vars>>
    /\ UNCHANGED <<leaf_vars, borrow, counter, repolls, last_add>>

\* waker.wake(): the write, then the drop of the thread's clone
ThreadWake(i) ==
    /\ thread[i].pc = "wake"
    /\ Woken(i, FALSE, [pc |-> "exit", pre |-> 0, waker |-> None, woke |-> TRUE])
    /\ UNCHANGED <<exec_vars, ready>>
    /\ UNCHANGED <<spawn_log, first_polls, event_fd, fd_owner, polled, late_spawns, answering, overpolled>>
    /\ UNCHANGED <<leaf_vars, borrow, repolls, last_add>>

\* ------------------------------------------------------ task::spawn_blocking
\* where the worker thread of task i is in JoinHandleCompleter::complete
Step(i) == IF thread[i].pc = "c1" THEN 1 ELSE 2

\* the worker thread: f() returned, tx.send(t)
WorkerSend(i) ==
    /\ thread[i].pc \in {"c1", "c2"}
    /\ complete[Step(i)] = "send"
    /\ \E v \in Values :
        /\ jchan' = [jchan EXCEPT ![i] = complete_send(@, v)]
        /\ sent' = [sent EXCEPT ![i] = v]
    /\ thread' = [thread EXCEPT ![i].pc = IF @ = "c1" THEN "c2" ELSE "exit"]
    /\ UNCHANGED <<exec_vars, epoll_vars, hist_vars, ready>>
    /\ UNCHANGED <<env_vars, timer_vars, completer, holder, joined, out, counter, repolls, last_add, borrow>>

\* the worker thread: self.waker.wake(), the write
WorkerWake(i) ==
    /\ thread[i].pc \in {"c1", "c2"}
    /\ complete[Step(i)] = "wake"
    /\ Woken(i, TRUE, [thread[i] EXCEPT !.pc = IF @ = "c1" THEN "d1" ELSE "d2", !.woke = TRUE])
    /\ UNCHANGED <<exec_vars, ready>>
    /\ UNCHANGED <<spawn_log, first_polls, event_fd, fd_owner, polled, late_spawns, answering, overpolled>>
    /\ UNCHANGED <<leaf_vars, borrow, repolls, last_add>>

\* the worker thread: self.waker.wake(), the drop of the waker after the
\* write
WorkerDrop(i) ==
    /\ thread[i].pc \in {"d1", "d2"}
    /\ LET fd == thread[i].waker
       IN /\ rdllist' = DropReady(rdllist, refs, fd)
          /\ interest' = DropInterest(interest, refs, fd)
          /\ counter' = DropCounter(counter, refs, fd)
          /\ refs' = DropRefs(refs, fd)
    /\ thread' = [thread EXCEPT ![i] = [pc |-> IF @.pc = "d1" THEN "c2" ELSE "exit", pre |-> 0, waker |-> None, woke |-> TRUE]]
    /\ UNCHANGED <<exec_vars, ready, hist_vars>>
    /\ UNCHANGED <<leaf_vars, borrow, repolls, last_add>>

\* ------------------------------------------------------------------ timerfd
\* the interval timer expires: the timerfd becomes readable
TimerFire ==
    /\ expired' = TRUE
    /\ rdllist' = EpollCallback(interest, rdllist, TimerFd)
    /\ UNCHANGED <<exec_vars, interest, refs, thread_vars, hist_vars>>
    /\ UNCHANGED <<env_vars, tick_state, sleep_timer, reg_calls, first_reg, join_vars, counter, repolls, last_add, borrow>>

\* the timer of the Sleep that task i awaits expires: its timerfd becomes
\* readable
SleepFire(i) ==
    /\ sleep_timer[i] = "armed"
    /\ sleep_timer' = [sleep_timer EXCEPT ![i] = "expired"]
    /\ rdllist' = EpollCallback(interest, rdllist, SleepFd(i))
    /\ UNCHANGED <<exec_vars, interest, refs, thread_vars, hist_vars>>
    /\ UNCHANGED <<env_vars, expired, tick_state, reg_calls, first_reg, join_vars, counter, repolls, last_add, borrow>>

\* ------------------------------------------------------- outside of a poll
\* RuntimeContext::current
current_context(ctx) == IF ctx = NoContext THEN "panic" ELSE "Ok"

\* task::spawn called by the main thread before block_on or after it
\* returned: RuntimeContext::current, then RuntimeContext::spawn
TaskSpawnOutside ==
    /\ pc \in {"start", "returned"}
    /\ current_context(context) = "panic" \/ current < MaxTasks
    /\ IF current_context(context) = "panic"
       THEN /\ pc' = "panic_no_runtime"
            /\ UNCHANGED <<current, new_futures, spawn_log, tasks>>
       ELSE LET inner == spawn([current |-> current, new_futures |-> new_futures, log |-> spawn_log])
            IN /\ current' = inner.current
               /\ new_futures' = inner.new_futures
               /\ spawn_log' = inner.log
               /\ tasks' = [i \in FutureIds |-> IF i = current THEN NewTask ELSE tasks[i]]
               /\ UNCHANGED pc
    /\ UNCHANGED <<futures, context, front, waker, future_id, result, chan, output, root, value>>
    /\ UNCHANGED <<epoll_vars, thread_vars>>
    /\ UNCHANGED <<first_polls, event_fd, fd_owner, polled, wakes_since_poll, late_spawns, answering, stale, overpolled>>
    /\ UNCHANGED <<leaf_vars, borrow, counter, repolls, last_add>>

Executor ==
    \/ RuntimeSpawn
    \/ BlockOn
    \/ LoopTop
    \/ CreateWaker
    \/ PollNew
    \/ FinishNew
    \/ Wait
    \/ PollExisting
    \/ WarnUnexpected
    \/ FinishExisting
    \/ Recv

Thread(i) ==
    \/ ThreadWakeByRef(i)
    \/ ThreadStore(i)
    \/ ThreadWake(i)

Next ==
    \/ Executor
    \/ \E i \in FutureIds : Thread(i)

Spec == Init /\ [][Next]_vars

\* the executor thread and every started OS thread keep running
FairSpec == Spec /\ WF_vars(Executor) /\ \A i \in FutureIds : WF_vars(Thread(i))

\* runs in which the main thread also calls task::spawn outside of block_on
ApiNext ==
    \/ Next
    \/ TaskSpawnOutside

ApiSpec == Init /\ [][ApiNext]_vars

\* runs of the manual-waker example
ManualInit == InitWith(ManualSet, {FALSE})

ManualSpec == ManualInit /\ [][Next]_vars

ManualFairSpec == ManualSpec /\ WF_vars(Executor) /\ \A i \in FutureIds : WF_vars(Thread(i))

\* runs whose threads may fill the eventfd counter
WakeInit == InitWith(TaskSet \cup FloodTasks, {FALSE})

WakeSpec == WakeInit /\ [][Next]_vars

\* runs of futures that await the Interval, with a kernel that may refuse
\* EPOLL_CTL_ADD
IoInit == InitWith(NowTasks \cup TickTasks, BOOLEAN)

IoNext ==
    \/ Executor
    \/ TimerFire

IoSpec == IoInit /\ [][IoNext]_vars

\* runs of futures that await join handles
JoinInit == InitWith(NowTasks \cup StallTasks \cup JoinTasks \cup BlockTasks, {FALSE})

Worker(i) ==
    \/ WorkerSend(i)
    \/ WorkerWake(i)
    \/ WorkerDrop(i)

JoinNext ==
    \/ Executor
    \/ \E i \in FutureIds : Worker(i)

JoinSpec == JoinInit /\ [][JoinNext]_vars

JoinFairSpec == JoinSpec /\ WF_vars(Executor) /\ \A i \in FutureIds : WF_vars(Worker(i))

\* runs of futures that drop the JoinHandle of the task they spawn
DetachInit == InitWith(NowTasks \cup StallTasks \cup DetachTasks, {FALSE})

DetachSpec == DetachInit /\ [][Executor]_vars

\* runs of futures that await several JoinHandles in turn
GatherInit == InitWith(NowTasks \cup StallTasks \cup DetachTasks \cup GatherTasks, {FALSE})

GatherSpec == GatherInit /\ [][Executor]_vars

GatherFairSpec == GatherSpec /\ WF_vars(Executor)

\* runs of futures that hand a JoinHandle to another task
MoveInit == InitWith(NowTasks \cup ThreadTasks \cup MoveTasks \cup RecvTasks, {FALSE})

MoveSpec == MoveInit /\ [][Next]_vars

MoveFairSpec == MoveSpec /\ WF_vars(Executor) /\ \A i \in FutureIds : WF_vars(Thread(i))

\* runs in which futures may go on spawning without end
ChainInit == InitWith(TaskSet \cup ChainTasks, {FALSE})

ChainSpec == ChainInit /\ [][Next]_vars

ChainFairSpec == ChainSpec /\ WF_vars(Executor) /\ \A i \in FutureIds : WF_vars(Thread(i))

\* runs of futures that sleep
SleepInit == InitWith(NowTasks \cup TickTasks \cup SleepTasks, {FALSE})

SleepNext ==
    \/ IoNext
    \/ \E i \in FutureIds : SleepFire(i)

SleepSpec == SleepInit /\ [][SleepNext]_vars

\* the executor keeps running and the clock keeps going
SleepFairSpec == SleepSpec /\ WF_vars(Executor) /\ WF_vars(TimerFire) /\ \A i \in FutureIds : WF_vars(SleepFire(i))

TypeOK ==
    /\ current \in 0 .. (MaxTasks + 1)
    /\ pc \in {"start", "loop", "new", "poll_new", "polled_new", "wait", "existing", "polled_existing", "break", "returned",
               "panicked", "panic_add", "panic_wake", "panic_no_runtime", "panic_borrow"}
    /\ \A fd \in Fds : refs[fd] \in 0 .. 4 /\ counter[fd] \in 0 .. EventFdMax
    /\ DOMAIN interest \subseteq Fds \cup {TimerFd} \cup SleepFds

\* ------------------------------------------------------------------ claims
Range(q) == {q[k] : k \in 1 .. Len(q)}

Spawned(i) == i < current

Parked(i) == i \in DOMAIN futures

\* C1 as stated: whenever every task returns Ready after finitely many
\* polls, block_on eventually returns.
C1_Original == <>(pc = "returned")

\* C1: block_on eventually returns when every task that returned Pending
\* has arranged a wakeup, that is, when no task returns Pending without one.
C1_Termination == <>(pc = "returned" \/ \E i \in FutureIds : tasks[i].kind = "stall")

C1_Witness ==
    /\ pc = "returned"
    /\ current >= 2
    /\ \A i \in FutureIds : tasks[i].kind # "stall"
    /\ \E i \in FutureIds : tasks[i].kind = "thread" /\ thread[i].pc = "exit"

\* C2: block_on returns exactly the output of the future it was given: the
\* channel receives one value, recv finds it and never panics.
C2_ReturnValue ==
    /\ pc # "panicked"
    /\ Len(chan) <= 1
    /\ chan # <<>> => Head(chan) = value /\ Done(root)
    /\ pc = "returned" => output = value /\ output \in Values

C2_Witness ==
    /\ pc = "returned"
    /\ output = 42
    /\ root = 1
    /\ tasks[root].kind = "thread"

\* C3: the loop breaks exactly when, at the termination check, new_futures
\* and the parked map are both empty; it is never left while a task is in
\* either, and wait() is never called with an empty parked map.
C3_LoopExit ==
    /\ [](pc = "break" => new_futures = <<>> /\ DOMAIN futures = {} /\ front = None)
    /\ [](pc = "wait" => DOMAIN futures # {})
    /\ [][pc = "loop" /\ pc' # "loop" => ((pc' = "break") <=> (new_futures = <<>> /\ DOMAIN futures = {}))]_vars

C3_Witness ==
    /\ pc = "break"
    /\ current >= 2
    /\ \E i \in FutureIds : tasks[i].kind = "thread" /\ Done(i)

\* C4: when block returns, every task ever spawned has had a poll that
\* returned Ready, also when block_on's own future completed first.
C4_AllComplete == pc \in {"break", "returned", "panicked"} => \A i \in FutureIds : Spawned(i) => Done(i)

C4_Witness ==
    /\ pc = "returned"
    /\ root = 0
    /\ tasks[root].kind = "now"
    /\ \E i \in FutureIds : i # root /\ tasks[i].kind = "thread" /\ Done(i)

\* C5: first polls happen in the order of the spawn calls.
C5_FifoFirstPoll ==
    /\ Len(first_polls) <= Len(spawn_log)
    /\ \A k \in 1 .. Len(first_polls) : first_polls[k] = spawn_log[k]

C5_Witness ==
    /\ Len(first_polls) >= 2
    /\ root = 1
    /\ \A i \in {0, 1} : tasks[i].kind = "now"

\* C6: whenever the executor is in wait(), every spawned task has had its
\* first poll: nothing is left in new_futures or in hand.
C6_NoWaitWithNew ==
    pc = "wait" => /\ new_futures = <<>>
                   /\ front = None
                   /\ Range(first_polls) = Range(spawn_log)

C6_Witness ==
    /\ pc = "wait"
    /\ late_spawns >= 1
    /\ Len(first_polls) >= 2

\* C7 as stated: the task does not complete before its thread has made
\* ready true and called wake or wake_by_ref.
C7_Original == \A i \in FutureIds : tasks[i].kind = "thread" /\ Done(i) => ready[i] /\ thread[i].woke

\* C7: a task woken from its thread never completes before the thread made
\* ready true, and it completes once the thread has called wake: a thread
\* that has exited stays exited and a done task stays done, so from some
\* point on every task whose thread has exited is done.
C7_CrossThreadWake ==
    /\ [](\A i \in FutureIds : tasks[i].kind = "thread" /\ Done(i) => ready[i])
    /\ <>[](\A i \in FutureIds : thread[i].pc = "exit" => Done(i))

C7_Witness ==
    \E i \in FutureIds :
        /\ thread[i].pc = "exit"
        /\ Done(i)
        /\ pc = "polled_existing"
        /\ polled = i

\* the fd of the waker of task i while the executor holds it
WakerFd(i) == IF Parked(i) THEN futures[i] ELSE waker

Pending(i) == tasks[i].st = "pending"

\* C8: a wake of a task whose last poll returned Pending stays queued in
\* the ready list until wait() returns the task's id, and the task is
\* polled again: the task is never left for good in the state of being
\* woken and not yet polled.
C8_NoLostWakeup ==
    /\ [](\A i \in FutureIds :
            Pending(i) /\ wakes_since_poll[i] > 0
                => Contains(rdllist, WakerFd(i)) \/ (pc = "existing" /\ future_id = i))
    /\ \A i \in FutureIds : []<>(~(Pending(i) /\ wakes_since_poll[i] > 0))

C8_Witness ==
    \E i \in FutureIds :
        /\ Parked(i)
        /\ wakes_since_poll[i] > 0
        /\ pc = "existing"
        /\ future_id = i
        /\ event_fd = futures[i]

\* C9: the event of a task's eventfd carries that task's id, and the poll
\* that answers it is a poll of that task.
C9_WakeTargetsOwner ==
    /\ pc \in {"existing", "polled_existing"} => future_id = fd_owner[event_fd]
    /\ pc = "polled_existing" => polled = future_id
    /\ \A fd \in DOMAIN interest : interest[fd] = fd_owner[fd]

C9_Witness ==
    /\ pc = "polled_existing"
    /\ polled # 0
    /\ thread[polled].pc = "exit"
    /\ Cardinality(DOMAIN futures) >= 2

\* C10 as stated: wakes made before the task's next poll give it at most one
\* additional poll.
C10_Original == ~overpolled

\* C10: wakes made before wait() next returns the task's id make wait()
\* return it at most once, and a parked task leaves the parked map only by
\* a poll of it that returned Ready.
C10_SpuriousWake ==
    /\ [](\A i \in 1 .. Len(rdllist) : \A j \in 1 .. Len(rdllist) : rdllist[i] = rdllist[j] => i = j)
    /\ [][pc = "wait" /\ pc' = "existing" => ~Contains(rdllist', event_fd')]_vars
    /\ [][\A i \in DOMAIN futures :
            i \notin DOMAIN futures' => pc = "polled_existing" /\ future_id = i /\ result = "Ready"]_vars

C10_Witness ==
    \E i \in FutureIds :
        /\ Parked(i)
        /\ wakes_since_poll[i] >= 2
        /\ pc = "existing"
        /\ future_id = i
        /\ ~Contains(rdllist, futures[i])

\* C11 as stated: the manual-waker task is polled exactly two times after
\* its initial poll.
C11_Original == \A i \in FutureIds : tasks[i].kind = "thread" /\ Done(i) => repolls[i] = 2

\* C11: the manual-waker task is polled at least once and at most three
\* times after its initial poll, once for each of the event of the
\* subscription, the wake_by_ref and the wake; only the last of these polls
\* returns Ready, it finds ready true, and block_on returns the value of its
\* future unless some other task never completes.
C11_ManualWaker ==
    /\ [](\A i \in FutureIds : tasks[i].kind = "thread" /\ Done(i) => repolls[i] \in 1 .. 3 /\ ready[i])
    /\ [](\A i \in FutureIds : tasks[i].kind = "thread" /\ ~Done(i) => repolls[i] \in 0 .. 2)
    /\ [](pc = "returned" => output = value)
    /\ <>(pc = "returned" \/ \E i \in FutureIds : tasks[i].kind = "stall")

C11_Witness ==
    /\ pc = "returned"
    /\ tasks[root].kind = "thread"
    /\ repolls[root] = 3
    /\ output = 42

\* C12: a poll is in progress only between the start of a poll and the
\* application of its result, for one task; a poll starts only when no
\* poll is in progress, no context is set, and every task that was polled
\* before is either parked or done.
C12_OnePollAtATime ==
    /\ [](polled # None <=> pc \in {"polled_new", "polled_existing"})
    /\ [](context # NoContext => polled # None /\ context.future_id = polled)
    /\ [][polled' # polled /\ polled' # None
            => /\ polled = None
               /\ result = "none"
               /\ context = NoContext
               /\ \A i \in Range(first_polls) : Parked(i) \/ Done(i)]_vars

C12_Witness ==
    /\ pc = "polled_existing"
    /\ polled = 1
    /\ context.future_id = 1
    /\ Parked(0)
    /\ Len(first_polls) = 2

\* C15: task::spawn called while no poll is in progress panics with "No
\* active runtime" and changes nothing else; no context is set before
\* block_on or after it returned.
C15_NoActiveRuntime ==
    /\ [](pc \in {"start", "returned"} => context = NoContext)
    /\ [][TaskSpawnOutside
            => /\ pc' = "panic_no_runtime"
               /\ UNCHANGED <<current, new_futures, futures, context, front, waker, future_id, result, chan, output, root, value, tasks>>
               /\ UNCHANGED <<epoll_vars, thread_vars, leaf_vars, counter>>]_vars

C15_Witness ==
    /\ pc = "panic_no_runtime"
    /\ output \in Values
    /\ current = 2

\* C16: a spawn call appends the fresh id to the back of new_futures and
\* advances the generator by one for each future spawned; it leaves the
\* parked map and the registry alone, and a spawn outside of a poll polls
\* nothing and creates no waker.
C16_SpawnOnlyAdmits ==
    [][Len(spawn_log') > Len(spawn_log)
        => LET k == Len(spawn_log') - Len(spawn_log)
           IN /\ current' = current + k
              /\ \A j \in 1 .. k : spawn_log'[Len(spawn_log) + j] = current + j - 1
              /\ new_futures' = new_futures \o SubSeq(spawn_log', Len(spawn_log) + 1, Len(spawn_log'))
              /\ UNCHANGED <<futures, interest, rdllist, counter>>
              /\ pc = "start" => UNCHANGED <<refs, context, first_polls, polled, result, thread_vars>>]_vars

C16_Witness ==
    /\ pc = "start"
    /\ new_futures = <<0>>
    /\ current = 1
    /\ first_polls = <<>>
    /\ \A fd \in Fds : refs[fd] = 0

\* a poll called register_file_descriptor in this step
Registers ==
    /\ pc \in {"poll_new", "existing"}
    /\ pc' \in {"polled_new", "polled_existing", "panic_add"}
    /\ last_add' # "none"

\* create_waker ran in this step
CreatesWaker == pc = "new" /\ pc' # pc

\* C13: a register_file_descriptor call for an fd that the calling task
\* has subscribed before is accepted: it does not panic, it leaves the
\* interest list and the ready list as they are, and the fd stays
\* subscribed under the id it was first subscribed under.
C13_IdempotentRegistration ==
    /\ [](TimerFd \in DOMAIN interest => interest[TimerFd] = first_reg)
    /\ [][Registers /\ TimerFd \in DOMAIN interest /\ interest[TimerFd] = polled'
            => /\ last_add' = "EEXIST"
               /\ pc' \in {"polled_new", "polled_existing"}
               /\ UNCHANGED <<interest, rdllist, futures>>]_vars

C13_Witness ==
    /\ pc = "polled_existing"
    /\ last_add = "EEXIST"
    /\ polled = 0
    /\ reg_calls[0] = 2
    /\ interest[TimerFd] = 0

C17_JoinHandle ==
    /\ [](\A b \in FutureIds : completer[b] # NoCompleter
            => /\ ~Done(b)
               /\ ~Done(completer[b].handle)
               /\ jchan[completer[b].handle] = <<>>
               /\ sent[completer[b].handle] = None
               /\ refs[completer[b].waker] > 0)
    /\ [](\A a \in FutureIds : Len(jchan[a]) <= 1)
    /\ [](\A a \in FutureIds : tasks[a].kind = "join" /\ Done(a) => sent[a] \in Values /\ out[a] = sent[a] /\ jchan[a] = <<>>)
    /\ [](\A a \in FutureIds : tasks[a].kind = "join" /\ ~Done(a) /\ sent[a] # None => jchan[a] = <<sent[a]>>)
    /\ [][\A a \in FutureIds : sent[a] # None => sent'[a] = sent[a]]_vars
    /\ <>[](\A a \in FutureIds : tasks[a].kind = "join" /\ sent[a] # None => Done(a))

C17_Witness ==
    /\ pc = "returned"
    /\ tasks[0].kind = "join"
    /\ tasks[1].kind = "stall"
    /\ Done(1)
    /\ out[1] = 42
    /\ out[0] = 42
    /\ output = 42

\* C18: the worker thread of spawn_blocking has sent the result when it
\* calls wake, so a task that is polled after the wake finds the value;
\* the awaiting task resolves with the value sent, and every task that
\* awaits a spawn_blocking handle does resolve.
C18_SpawnBlocking ==
    /\ [](\A a \in FutureIds : tasks[a].kind = "block" /\ thread[a].woke => sent[a] # None)
    /\ [](\A a \in FutureIds : tasks[a].kind = "block" /\ ~Done(a) /\ sent[a] # None => jchan[a] = <<sent[a]>>)
    /\ [](\A a \in FutureIds : tasks[a].kind = "block" /\ Done(a) => sent[a] \in Values /\ out[a] = sent[a])
    /\ [](\A a \in FutureIds : tasks[a].kind = "block" => thread[a].pc # "none")
    /\ <>[](\A a \in FutureIds : tasks[a].kind = "block" => Done(a))

C18_Witness ==
    /\ pc = "returned"
    /\ tasks[0].kind = "block"
    /\ thread[0].pc = "exit"
    /\ out[0] = 41
    /\ output = 41
    /\ repolls[0] = 0

\* C19 as stated: a wake whose write is refused with would-block does not
\* panic, neither on a waking thread nor on the executor thread.
C19_Original == pc # "panic_wake" /\ \A i \in FutureIds : thread[i].pc # "panic_wake"

\* C20: an EPOLL_CTL_ADD that fails with another error than EEXIST ends in
\* a panic of the executor thread; every parked task has its eventfd
\* subscribed under its id, and a parked task that awaits the Interval has
\* the timerfd subscribed.
C20_RegistrationFatal ==
    /\ [](last_add \notin {"none", "Ok", "EEXIST"} => pc = "panic_add")
    /\ [][(Registers \/ CreatesWaker) /\ last_add' \notin {"Ok", "EEXIST"} => pc' = "panic_add" /\ UNCHANGED <<interest, futures>>]_vars
    /\ [](\A i \in FutureIds : Parked(i) => futures[i] \in DOMAIN interest /\ interest[futures[i]] = i)
    /\ [](\A i \in FutureIds : Parked(i) /\ tasks[i].kind = "tick" => TimerFd \in DOMAIN interest)

C20_Witness ==
    /\ pc = "panic_add"
    /\ last_add = "ENOMEM"
    /\ faults
    /\ polled = 0
    /\ tasks[0].kind = "tick"
    /\ ~Parked(0)
    /\ TimerFd \notin DOMAIN interest

\* the executor applied the result of a poll in this step
Applies == pc \in {"polled_new", "polled_existing"} /\ pc' = "loop"

\* C21: the parked map holds exactly the tasks whose last poll returned
\* Pending, but for the task whose poll result is not applied yet; a first
\* poll that returns Pending inserts the task and one that returns Ready
\* does not, a later poll that returns Pending leaves the map alone and one
\* that returns Ready removes the task.
C21_ParkedArePending ==
    /\ [](\A i \in FutureIds : i # polled => (Parked(i) <=> tasks[i].st = "pending"))
    /\ [][Applies /\ pc = "polled_new"
            => /\ result = "Pending" => futures' = insert(futures, front, waker)
               /\ result = "Ready" => futures' = futures /\ ~Parked(front)]_vars
    /\ [][Applies /\ pc = "polled_existing"
            => /\ result = "Pending" => futures' = futures /\ Parked(future_id)
               /\ result = "Ready" => futures' = remove(futures, future_id)]_vars
    /\ [][futures' # futures => Applies]_vars

C21_Witness ==
    /\ pc = "loop"
    /\ first_polls = <<0, 1>>
    /\ Parked(0)
    /\ tasks[1].kind = "stall"
    /\ Done(1)
    /\ ~Parked(1)

\* C22: no id is twice in new_futures, no id is both in new_futures and in
\* the parked map, the id in hand is in neither, and a task that is done
\* and reaped is in neither.
C22_OnePlacePerTask ==
    /\ \A j, k \in 1 .. Len(new_futures) : j # k => new_futures[j] # new_futures[k]
    /\ Range(new_futures) \cap DOMAIN futures = {}
    /\ front # None => front \notin Range(new_futures) /\ ~Parked(front)
    /\ \A i \in FutureIds : Done(i) /\ i # polled => i \notin Range(new_futures) /\ ~Parked(i)
    /\ \A i \in FutureIds : i \in Range(new_futures) => tasks[i].st = "new"

C22_Witness ==
    /\ pc = "loop"
    /\ Parked(0)
    /\ new_futures = <<1>>
    /\ tasks[0].st = "pending"

C24_OneWakerPerTask ==
    /\ [](\A i \in FutureIds : Parked(i)
            => /\ futures[i] \in Fds
               /\ refs[futures[i]] > 0
               /\ futures[i] \in DOMAIN interest
               /\ interest[futures[i]] = i
               /\ fd_owner[futures[i]] = i)
    /\ [](\A i, j \in FutureIds : Parked(i) /\ Parked(j) /\ i # j => futures[i] # futures[j])
    /\ [](\A f, g \in DOMAIN interest : interest[f] = interest[g] => f = g)
    /\ [](pc = "poll_new" => waker \in DOMAIN interest /\ interest[waker] = front
                              /\ \A i \in FutureIds : Parked(i) => futures[i] # waker)
    /\ [](pc = "polled_new" => context.waker = waker)
    /\ [](pc = "polled_existing" => context.waker = futures[future_id])
    /\ [][\A i \in FutureIds : Parked(i) /\ i \in DOMAIN futures' => futures'[i] = futures[i]]_vars
    /\ [][pc = "polled_new" /\ pc' = "loop" /\ Parked(front)' => futures'[front] = waker]_vars

C24_Witness ==
    /\ pc = "polled_existing"
    /\ Parked(0)
    /\ Parked(1)
    /\ futures[0] = 0
    /\ futures[1] = 1
    /\ context.waker = 1
    /\ repolls[1] = 0
    /\ interest[1] = 1

\* C25 as stated: once a task returned Ready and was reaped, no eventfd is
\* subscribed under its id.
C25_Original == \A i \in FutureIds : Done(i) /\ i # polled => \A fd \in DOMAIN interest : interest[fd] # i

\* C25: when a poll returns Ready the executor drops its two owners of the
\* task's waker, the stored one and the clone in the context; an eventfd is
\* subscribed exactly while it has an owner, so the eventfd of a reaped
\* task stays subscribed while the task's thread holds a clone and is
\* closed with the last clone; an event that returns the id of a reaped
\* task polls nothing.
C25_Reap ==
    /\ [](\A fd \in Fds : fd \in DOMAIN interest <=> refs[fd] > 0)
    /\ [](\A k \in 1 .. Len(rdllist) : rdllist[k] \in DOMAIN interest)
    /\ [](\A i \in FutureIds : Done(i) /\ i # polled
            => \A fd \in DOMAIN interest : interest[fd] = i => thread[i].waker = fd /\ refs[fd] = 1)
    /\ [][Applies /\ result = "Ready"
            => LET fd == IF pc = "polled_new" THEN waker ELSE futures[future_id]
               IN /\ refs'[fd] = refs[fd] - 2
                  /\ refs'[fd] = 0 => fd \notin DOMAIN interest' /\ ~Contains(rdllist', fd)]_vars
    /\ [][pc = "existing" /\ Done(future_id) /\ pc' # pc => pc' = "loop" /\ polled' = None /\ tasks' = tasks]_vars

C25_Witness ==
    /\ pc = "loop"
    /\ Done(0)
    /\ thread[0].pc = "wake"
    /\ thread[0].waker = 0
    /\ interest[0] = 0
    /\ refs[0] = 1
    /\ Parked(1)

\* C26: when wait() returned an id that is not in the parked map, the
\* executor goes back to the top of the loop: it polls nothing, sets no
\* context, and leaves new_futures, the parked map, the tasks and the epoll
\* instance as they are.
C26_UnexpectedIdIgnored ==
    [][pc = "existing" /\ future_id \notin DOMAIN futures /\ pc' # pc
        => /\ pc' = "loop"
           /\ context' = NoContext
           /\ polled' = None
           /\ UNCHANGED <<current, new_futures, futures, tasks, result, chan, first_polls, spawn_log>>
           /\ UNCHANGED <<interest, rdllist, refs, counter, thread_vars>>]_vars

C26_Witness ==
    /\ pc = "existing"
    /\ future_id = 0
    /\ Done(0)
    /\ ~Parked(0)
    /\ Parked(1)
    /\ context = NoContext

\* C27: block leaves the loop as soon as new_futures and the parked map are
\* empty, whatever is subscribed; it waits only while a task that is not
\* done is parked, and a task that returned Ready is neither parked nor in
\* new_futures, although its eventfd may be open and subscribed.
C27_ExitIgnoresRegistry ==
    /\ [][pc = "loop" /\ new_futures = <<>> /\ DOMAIN futures = {} /\ pc' # pc => pc' = "break"]_vars
    /\ [](pc = "wait" => \E i \in FutureIds : Parked(i) /\ ~Done(i))
    /\ [](pc \in {"break", "returned"} => new_futures = <<>> /\ DOMAIN futures = {})
    /\ [](\A i \in FutureIds : Done(i) /\ i # polled => ~Parked(i) /\ i \notin Range(new_futures))

C27_Witness ==
    /\ pc = "returned"
    /\ Done(0)
    /\ thread[0].pc = "wake"
    /\ thread[0].waker \in DOMAIN interest
    /\ refs[thread[0].waker] = 1

\* C28: the context is set exactly from the start of a poll to the
\* application of its result; it holds the id of the task polled and the
\* waker made for that task, and the thread a poll starts gets a clone of
\* that waker.
C28_ContextIsPolledTask ==
    /\ [](context # NoContext <=> pc \in {"polled_new", "polled_existing"})
    /\ [](pc = "polled_new" => context = [future_id |-> front, waker |-> waker])
    /\ [](pc = "polled_existing" => context = [future_id |-> future_id, waker |-> futures[future_id]])
    /\ [](context # NoContext => fd_owner[context.waker] = context.future_id /\ interest[context.waker] = context.future_id)
    /\ [][\A i \in FutureIds : thread[i].pc = "none" /\ thread'[i].pc # "none"
            => context'.future_id = i /\ thread'[i].waker = context'.waker]_vars

C28_Witness ==
    /\ pc = "polled_existing"
    /\ context = [future_id |-> 1, waker |-> 1]
    /\ thread[1].waker = 1
    /\ Parked(0)

\* C29: RuntimeInner is not borrowed while a task is polled, so the
\* try_borrow_mut of a spawn or of a register_file_descriptor made by a
\* poll succeeds, and no try_borrow_mut of the executor panics.
C29_NoNestedBorrow ==
    /\ [](pc # "panic_borrow")
    /\ [](pc \in {"poll_new", "existing", "polled_new", "polled_existing"} => ~borrow)
    /\ [][polled' # polled /\ polled' # None /\ (Len(spawn_log') > Len(spawn_log) \/ last_add' # "none")
            => try_borrow_mut(borrow) = "Ok" /\ pc' \in {"polled_new", "polled_existing", "panic_add"}]_vars

C29_Witness ==
    /\ pc = "polled_new"
    /\ polled = 1
    /\ spawn_log = <<0, 1>>
    /\ tasks[0].kind = "now"
    /\ last_add = "Ok"
    /\ ~borrow

\* a task that awaits the Interval was polled in this step
TickPolled == polled' # None /\ polled' # polled /\ tasks'[polled'].kind = "tick"

Owners(fd) ==
    (IF pc \in {"poll_new", "polled_new"} /\ waker = fd THEN 1 ELSE 0)
    + Cardinality({i \in DOMAIN futures : futures[i] = fd})
    + (IF context.waker = fd THEN 1 ELSE 0)
    + Cardinality({i \in FutureIds : thread[i].waker = fd})
    + Cardinality({i \in FutureIds : completer[i].waker = fd})

\* the thread of task i called wake or wake_by_ref in this step
Wakes(i) == thread[i].pc \in {"run", "wake"} /\ thread'[i] # thread[i] /\ thread'[i].pc # "wake"

\* C31: the strong count of a waker is the number of its owners; the
\* eventfd is open and subscribed exactly while the count is positive;
\* wake_by_ref leaves the count alone and wake takes one off; a thread
\* that wakes holds an owner, so its eventfd is open.
C31_WakerRefCount ==
    /\ [](\A fd \in Fds : refs[fd] = Owners(fd))
    /\ [](\A fd \in Fds : fd \in DOMAIN interest <=> refs[fd] > 0)
    /\ [](\A i \in FutureIds : thread[i].waker # None => refs[thread[i].waker] > 0 /\ thread[i].waker \in DOMAIN interest)
    /\ [][\A i \in FutureIds : Wakes(i)
            => LET fd == thread[i].waker
               IN /\ refs[fd] > 0
                  /\ thread[i].pc = "run" => refs'[fd] = refs[fd] /\ thread'[i].waker = fd
                  /\ thread[i].pc = "wake" => refs'[fd] = refs[fd] - 1 /\ thread'[i].waker = None]_vars
    /\ [][\A fd \in Fds : refs[fd] > 0 /\ refs'[fd] = 0 => fd \notin DOMAIN interest' /\ ~Contains(rdllist', fd)]_vars

C31_Witness ==
    /\ pc = "polled_existing"
    /\ refs[0] = 3
    /\ futures[0] = 0
    /\ context.waker = 0
    /\ thread[0].waker = 0
    /\ thread[0].woke

\* C33: a poll is never a poll of a task that has returned Ready, and a
\* task that has returned Ready stays done, also while a clone of its waker
\* is used by a thread.
C33_NoPollAfterReady ==
    /\ [][polled' # None /\ polled' # polled => ~Done(polled')]_vars
    /\ [][\A i \in FutureIds : Done(i) => Done(i)' /\ tasks'[i] = tasks[i]]_vars
    /\ [](\A i \in FutureIds : Done(i) /\ i # polled => ~Parked(i) /\ i \notin Range(new_futures))

C33_Witness ==
    /\ Done(0)
    /\ thread[0].pc = "exit"
    /\ pc = "existing"
    /\ future_id = 0
    /\ event_fd = None \/ event_fd \notin DOMAIN interest
    /\ Parked(1)

\* C38: every channel gets at most one value: block_on's and a handle's
\* channel are empty when a value is sent, and a handle's channel gets no
\* second value; recv is called with the value in the channel, so it
\* neither waits nor fails.
C38_ChannelsNeverBlock ==
    /\ [](Len(chan) <= 1)
    /\ [](\A a \in FutureIds : Len(jchan[a]) <= 1)
    /\ [][chan' # chan /\ Len(chan') >= Len(chan) => chan = <<>> /\ value = None]_vars
    /\ [][\A a \in FutureIds : jchan'[a] # jchan[a] /\ Len(jchan'[a]) >= Len(jchan[a]) => jchan[a] = <<>> /\ sent[a] = None]_vars
    /\ [](pc = "break" => Len(chan) = 1)
    /\ [](pc # "panicked")

C38_Witness ==
    /\ pc = "returned"
    /\ tasks[0].kind = "join"
    /\ sent[0] = 41
    /\ output = 41
    /\ chan = <<>>
    /\ jchan[0] = <<>>

\* C39: the ids in new_futures increase from front to back, every id in
\* new_futures or in the parked map is below the generator, and first
\* polls come in the order of the ids.
C39_AscendingIds ==
    /\ \A j, k \in 1 .. Len(new_futures) : j < k => new_futures[j] < new_futures[k]
    /\ \A i \in Range(new_futures) \cup DOMAIN futures : i < current
    /\ front # None => front < current /\ \A i \in Range(new_futures) : front < i
    /\ \A j, k \in 1 .. Len(first_polls) : j < k => first_polls[j] < first_polls[k]
    /\ \A i \in Range(first_polls) : \A n \in Range(new_futures) : i < n

C39_Witness ==
    /\ pc = "poll_new"
    /\ front = 1
    /\ first_polls = <<0>>
    /\ Parked(0)
    /\ new_futures = <<>>
    /\ current = 2

\* C37 as stated: every task that awaits time::sleep(d) completes, for
\* every d.
C37_Original == <>[](\A i \in FutureIds : tasks[i].kind = "sleep" => Done(i))

\* a task that sleeps for a positive duration completes
PositiveSleepCompletes == <>[](\A i \in FutureIds : tasks[i].kind = "sleep" /\ sleep_timer[i] # "disarmed" => Done(i))

\* C34 as stated: a parked task whose waker was triggered is polled again,
\* also when other tasks go on spawning.
C34_Original ==
    \A i \in FutureIds : (Parked(i) /\ wakes_since_poll[i] > 0) ~> (pc = "polled_existing" /\ polled = i)

\* while new_futures is served, wait() is not called
WaitOnlyWhenFifoEmpty == [][pc = "wait" /\ pc' = "existing" => front = None /\ new_futures = <<>>]_vars

\* the wrapped future of task b holds a completer whose JoinHandle was
\* dropped
Detached(b) == completer[b] # NoCompleter /\ completer[b].handle = b /\ holder[b] = None

C35_Original ==
    \A c \in FutureIds :
        (\E b \in FutureIds : holder[b] = c /\ jchan[b] # <<>>) ~> (Done(c) /\ joined[c] # {})

\* the completion of a task whose handle was moved writes to the eventfd of
\* the task that called task::spawn
MovedWakeGoesToSpawner ==
    [][\A b \in FutureIds :
        completer[b] # NoCompleter /\ holder[b] # None /\ polled = None /\ polled' = b /\ result' = "Ready"
            => /\ jchan'[b] # <<>>
               /\ \A fd \in Range(rdllist') : Contains(rdllist, fd) \/ fd = completer[b].waker]_vars

\* the handles task p still holds, and the one it awaits
Held(p) == {b \in FutureIds : holder[b] = p}

Awaited(p) == CHOOSE b \in Held(p) : \A c \in Held(p) : b <= c

\* this step is a poll of the gathering task p
GatherPolled(p) == tasks[p].kind = "gather" /\ polled = None /\ polled' = p

\* C36: a task that called task::spawn twice and awaits the two handles
\* in turn completes once both spawned tasks have completed, in whatever
\* order, and has then got both results.  A poll that finds the awaited
\* handle's channel empty returns Pending and takes nothing, also when the
\* other task has completed; a poll that finds the awaited handle's value
\* goes on to the next handle at once, and returns Ready when that task
\* had completed before.
C36_AwaitInTurn ==
    /\ <>[](\A p \in FutureIds : tasks[p].kind = "gather" /\ (\A b \in Held(p) : Done(b)) => Done(p))
    /\ [](\A p \in FutureIds :
            tasks[p].kind = "gather" /\ Done(p)
                => /\ Held(p) = {}
                   /\ Cardinality(joined[p]) = 2
                   /\ \A b \in joined[p] : Done(b) /\ sent[b] # None /\ jchan[b] = <<>>)
    /\ [][\A p \in FutureIds :
            GatherPolled(p) /\ Held(p) # {} /\ jchan[Awaited(p)] = <<>>
                => result' = "Pending" /\ joined' = joined /\ jchan' = jchan]_vars
    /\ [][\A p \in FutureIds :
            GatherPolled(p) /\ Held(p) # {} /\ (\A b \in Held(p) : jchan[b] # <<>>)
                => result' = "Ready" /\ joined'[p] = joined[p] \cup Held(p)]_vars

C36_Witness ==
    /\ tasks[0].kind = "gather"
    /\ Done(0)
    /\ joined[0] = {1, 2}
    /\ tasks[1].kind = "stall"
    /\ tasks[2].kind = "now"
    /\ pc = "returned"

\* a poll of the gathering task that returns Pending although the task
\* spawned second has completed
PendingOnOtherHandle ==
    /\ tasks[0].kind = "gather"
    /\ pc = "polled_existing"
    /\ polled = 0
    /\ result = "Pending"
    /\ Held(0) = {1, 2}
    /\ jchan[1] = <<>>
    /\ jchan[2] # <<>>

====
